---- MODULE Spec2Model ----
(***************************************************************************)
(* The client-side rate limiter of src/src/hooks/useRateLimit.ts: the hook *)
(* useRateLimit, its persisted record in localStorage, its derived state   *)
(* and its periodic refresh timer.                                         *)
(*                                                                         *)
(* Time is Date.now() in abstract units; counts and window lengths are     *)
(* scaled down to the bounds below.                                        *)
(***************************************************************************)
EXTENDS Integers, Sequences, FiniteSets, TLC

\* ------------------------------------------------------------------ bounds
MaxTime == 6        \* the clock runs over 0..MaxTime
MaxCount == 2       \* configs have maxRequests in 1..MaxCount
MaxWindow == 3      \* configs have windowMs in 1..MaxWindow
MaxCalls == 4       \* recordRequest calls kept in the call log of one limiter
PairMaxTime == 1    \* the clock's range when two limiters are mounted
PairMaxCalls == 2   \* the call log's length when two limiters are mounted
FaultMaxTime == 2   \* the clock's range when localStorage may fail or be overwritten
FaultMaxCalls == 2  \* the call log's length when localStorage may fail or be overwritten
CycleMaxTime == 2   \* the clock's range when the config may change
CycleMaxCalls == 1  \* the call log's length when the config may change
TripMaxTime == 3    \* the clock's range, and the timestamps, of the save/load round trips
TripMaxLen == 2     \* the longest request list saved in a round trip
LiveMaxTime == 3    \* the clock's range when the clock and the interval are fair
LiveMaxCalls == 3   \* the call log's length when the clock and the interval are fair
RaceMaxTime == 1    \* the clock's range when two contexts share the storage
RaceMaxCalls == 2   \* the call log's length of each of the two contexts
PageMaxTime == 1    \* the clock's range when the page's form is submitted
PageMaxCalls == 2   \* the call log's length when the page's form is submitted

VARIABLES
    now,        \* Date.now()
    store,      \* localStorage: key -> stored text
    quota,      \* TRUE when localStorage.setItem throws (storage full or unavailable)
    limiters,   \* the names of the hook instances of the page
    config,     \* limiter -> RateLimitConfig
    state,      \* limiter -> RateLimitState (the useState cell)
    phase,      \* limiter -> "rendered" | "mounted" | "unmounted"
    intervals,  \* limiter -> number of active setInterval timers of the instance
    lastOp,     \* limiter -> what set `state` last: "render", "refresh", "granted", "rejected"
    calls,      \* limiter -> log of recordRequest calls, [at, ok, remaining]
    refreshes,  \* limiter -> updateState runs in a row with no recordRequest or render, up to 2
    alone,      \* limiter -> the record, state and results of the same calls made with
                \*            no other limiter on the page
    horizon,    \* the last instant of the run
    maxLog,     \* the longest call log of the run
    roundTrip,  \* limiter -> the record last handed to saveToStorage on its own, and
                \*            what loadFromStorage returned for it
    pending,    \* context -> the recordRequest in progress: its stage and the record it read
    page,       \* the feedback form of the page: its fields and its submit handler
    effectConfig \* limiter -> the config closed over by the effect that ran last:
                \*            the one its interval's updateState works with

vars == <<now, store, quota, limiters, config, state, phase, intervals, lastOp, calls,
          refreshes, alone, horizon, effectConfig, maxLog,
                   roundTrip, pending, page>>

\* ------------------------------------------------------- JavaScript values
\* A JavaScript value that is a number, undefined or NaN.
Num(n) == [tag |-> "number", val |-> n]
Undefined == [tag |-> "undefined", val |-> 0]
NaN == [tag |-> "NaN", val |-> 0]
IsNum(v) == v.tag = "number"

Max(a, b) == IF a >= b THEN a ELSE b

\* `now >= v` for a number `now`: false when v is undefined (it converts to NaN).
JsGreaterEq(n, v) == IsNum(v) /\ n >= v.val

\* Math.max(0, v - n): NaN when v is undefined.
JsMaxZeroMinus(v, n) == IF IsNum(v) THEN Num(Max(0, v.val - n)) ELSE NaN

RECURSIVE SelectSeqWithinEarly(_, _, _)
\* Faulty variant of SelectSeqWithin: a timestamp is dropped one unit before its time.
SelectSeqWithinEarly(requests, n, windowMs) ==
    IF requests = <<>> THEN <<>>
    ELSE LET rest == SelectSeqWithinEarly(Tail(requests), n, windowMs)
         IN  IF n - Head(requests) < windowMs - 1 THEN <<Head(requests)>> \o rest ELSE rest

RECURSIVE SelectSeqWithin(_, _, _)
\* requests.filter(timestamp => now - timestamp < windowMs)
SelectSeqWithin(requests, n, windowMs) ==
    IF requests = <<>> THEN <<>>
    ELSE LET rest == SelectSeqWithin(Tail(requests), n, windowMs)
         IN  IF n - Head(requests) < windowMs THEN <<Head(requests)>> \o rest ELSE rest

\* ------------------------------------------------------------ localStorage
\* A stored text: what localStorage.getItem returns for a key.
\*   absent   getItem returns null
\*   empty    the empty string
\*   garbage  a text JSON.parse rejects
\*   null     the JSON text `null`
\*   object   a JSON object holding the fields named in `has`
Text(kind, has, requests, resetTime) ==
    [kind |-> kind, has |-> has, requests |-> requests, resetTime |-> resetTime]
Absent == Text("absent", {}, <<>>, 0)
EmptyText == Text("empty", {}, <<>>, 0)
Garbage == Text("garbage", {}, <<>>, 0)
NullText == Text("null", {}, <<>>, 0)

\* Faulty variant of JSONstringify: the resetTime field is not written.
JSONstringifyRequestsOnly(requests, resetTime) ==
    Text("object", {"requests"}, requests, 0)

\* JSON.stringify({requests, resetTime}): a field whose value is undefined is
\* left out, a NaN is written as null.
JSONstringify(requests, resetTime) ==
    Text("object",
         {"requests"} \cup (IF resetTime.tag = "undefined" THEN {} ELSE {"resetTime"}),
         requests,
         IF IsNum(resetTime) THEN resetTime.val ELSE 0)

\* JSON.parse(text): throws on garbage; otherwise the value, whose missing
\* fields read as undefined.  (A resetTime of null, as NaN is written, compares
\* as 0.)
JSONparse(text) ==
    [threw |-> text.kind = "garbage",
     isNull |-> text.kind = "null",
     hasRequests |-> "requests" \in text.has,
     requests |-> IF "requests" \in text.has THEN text.requests ELSE <<>>,
     resetTime |-> IF "resetTime" \in text.has THEN Num(text.resetTime) ELSE Undefined]

\* ------------------------------------------------------------------ config
rateLimitConfigs ==
    [feedback |-> [key |-> "feedback_submission", storageKey |-> "feedbackRateLimit"],
     changelog |-> [key |-> "changelog_creation", storageKey |-> "changelogRateLimit"]]

\* Faulty variant of storageKey: one key for every limiter, whatever the config says.
storageKeyIgnoresConfig(cfg) == "feedbackRateLimit"

\* config.storageKey || `rateLimit_${config.key}`
storageKey(cfg) ==
    IF cfg.storageKey # "" THEN cfg.storageKey ELSE "rateLimit_" \o cfg.key

Keys == {"feedbackRateLimit", "changelogRateLimit"}

\* -------------------------------------------------------------- the hook
\* Faulty variant of FreshRecord: the new deadline forgets the window's length.
FreshRecordNoWindow(cfg, n) == [requests |-> <<>>, resetTime |-> Num(n)]

\* The record loadFromStorage returns when there is nothing usable stored.
FreshRecord(cfg, n) == [requests |-> <<>>, resetTime |-> Num(n + cfg.windowMs)]

\* Faulty variant of loadFromStorage: at the window's end the timestamps still
\* younger than windowMs are carried into the new window.
loadFromStorageKeepsExpired(st, cfg, n) ==
    LET stored == st[storageKey(cfg)]
        data == JSONparse(stored)
    IN  IF stored.kind \in {"absent", "empty"} THEN FreshRecord(cfg, n)
        ELSE IF data.threw THEN FreshRecord(cfg, n)
        ELSE IF data.isNull THEN FreshRecord(cfg, n)
        ELSE IF ~data.hasRequests THEN FreshRecord(cfg, n)
        ELSE [requests |-> SelectSeqWithin(data.requests, n, cfg.windowMs),
              resetTime |-> IF JsGreaterEq(n, data.resetTime)
                            THEN Num(n + cfg.windowMs) ELSE data.resetTime]

\* Faulty variant of loadFromStorage: the window is taken as ended only after resetTime.
loadFromStorageStrict(st, cfg, n) ==
    LET stored == st[storageKey(cfg)]
        data == JSONparse(stored)
    IN  IF stored.kind \in {"absent", "empty"} THEN FreshRecord(cfg, n)
        ELSE IF data.threw THEN FreshRecord(cfg, n)
        ELSE IF data.isNull THEN FreshRecord(cfg, n)
        ELSE IF IsNum(data.resetTime) /\ n > data.resetTime.val THEN FreshRecord(cfg, n)
        ELSE IF ~data.hasRequests THEN FreshRecord(cfg, n)
        ELSE [requests |-> SelectSeqWithin(data.requests, n, cfg.windowMs),
              resetTime |-> data.resetTime]

loadFromStorage(st, cfg, n) ==
    LET stored == st[storageKey(cfg)]
        data == JSONparse(stored)
    IN  IF stored.kind \in {"absent", "empty"} THEN FreshRecord(cfg, n)
        ELSE IF data.threw THEN FreshRecord(cfg, n)          \* JSON.parse throws
        ELSE IF data.isNull THEN FreshRecord(cfg, n)         \* null.resetTime throws
        ELSE IF JsGreaterEq(n, data.resetTime) THEN FreshRecord(cfg, n)
        ELSE IF ~data.hasRequests THEN FreshRecord(cfg, n)   \* undefined.filter throws
        ELSE [requests |-> SelectSeqWithin(data.requests, n, cfg.windowMs),
              resetTime |-> data.resetTime]

\* The store after saveToStorage(requests, resetTime); setItem throwing is
\* caught and leaves the store as it was.
saveToStorage(st, full, cfg, requests, resetTime) ==
    IF full THEN st
    ELSE [st EXCEPT ![storageKey(cfg)] = JSONstringify(requests, resetTime)]

\* Faulty variant of updateState: the deadline is computed as the initial state computes it.
updateStateFreshDeadline(st, cfg, n) ==
    LET data == FreshRecord(cfg, n)
        stored == loadFromStorage(st, cfg, n)
        remainingRequests == Max(0, cfg.maxRequests - Len(stored.requests))
    IN  [canProceed |-> remainingRequests > 0,
         remainingRequests |-> remainingRequests,
         resetTime |-> data.resetTime,
         timeUntilReset |-> JsMaxZeroMinus(data.resetTime, n)]

\* The state updateState sets.
updateState(st, cfg, n) ==
    LET data == loadFromStorage(st, cfg, n)
        remainingRequests == Max(0, cfg.maxRequests - Len(data.requests))
    IN  [canProceed |-> remainingRequests > 0,
         remainingRequests |-> remainingRequests,
         resetTime |-> data.resetTime,
         timeUntilReset |-> JsMaxZeroMinus(data.resetTime, n)]

\* The initial value of the useState cell.
InitialState(cfg, n) ==
    [canProceed |-> TRUE,
     remainingRequests |-> cfg.maxRequests,
     resetTime |-> Num(n + cfg.windowMs),
     timeUntilReset |-> Num(cfg.windowMs)]

\* Faulty variant of HasCapacity: the request is refused only above maxRequests.
HasCapacityOffByOne(st, cfg, n) ==
    ~(Len(loadFromStorage(st, cfg, n).requests) > cfg.maxRequests)

\* recordRequest's check: may the request be made?
HasCapacity(st, cfg, n) == ~(Len(loadFromStorage(st, cfg, n).requests) >= cfg.maxRequests)

\* Faulty variant of StoreAfterRecord: the record is saved without the new timestamp.
StoreAfterRecordNotAppended(st, full, cfg, n) ==
    LET data == loadFromStorage(st, cfg, n)
    IN  IF HasCapacity(st, cfg, n)
        THEN saveToStorage(st, full, cfg, data.requests, data.resetTime)
        ELSE st

\* Faulty variant of StoreAfterRecord: a refused call writes back the record it loaded.
StoreAfterRecordAlwaysSaves(st, full, cfg, n) ==
    LET data == loadFromStorage(st, cfg, n)
    IN  IF HasCapacity(st, cfg, n)
        THEN saveToStorage(st, full, cfg, data.requests \o <<n>>, data.resetTime)
        ELSE saveToStorage(st, full, cfg, data.requests, data.resetTime)

\* The store after recordRequest.
StoreAfterRecord(st, full, cfg, n) ==
    LET data == loadFromStorage(st, cfg, n)
    IN  IF HasCapacity(st, cfg, n)
        THEN saveToStorage(st, full, cfg, data.requests \o <<n>>, data.resetTime)
        ELSE st

\* ----------------------------------------------------------------- actions
\* The localStorage a limiter sees when it is the only one on the page.
AloneStore(i) ==
    [k \in Keys |-> IF k = storageKey(config[i]) THEN alone[i].text ELSE Absent]

\* Faulty variant of clearInterval: the effect's cleanup clears nothing.
clearIntervalKeeps(n) == n

\* The instance's active intervals after the effect's cleanup, clearInterval(interval).
clearInterval(n) == n - 1

\* The instance's active intervals after setInterval(updateState, 1000).
setInterval(n) == n + 1

\* updateState as the callback made with config `cfg`.
RefreshWith(i, cfg) ==
    /\ state' = [state EXCEPT ![i] = updateState(store, cfg, now)]
    /\ lastOp' = [lastOp EXCEPT ![i] = "refresh"]
    /\ refreshes' = [refreshes EXCEPT ![i] = IF @ < 2 THEN @ + 1 ELSE @]
    /\ alone' = [alone EXCEPT ![i].state =
                    updateState([k \in Keys |-> IF k = storageKey(cfg)
                                                THEN alone[i].text ELSE Absent],
                                cfg, now)]

\* updateState of the current render, run by the effect.
Refresh(i) == RefreshWith(i, config[i])

\* Faulty variant of RunEffect: the effect refreshes once and sets no interval.
RunEffectNoInterval(i) ==
    /\ phase[i] = "rendered"
    /\ Refresh(i)
    /\ phase' = [phase EXCEPT ![i] = "mounted"]
    /\ effectConfig' = [effectConfig EXCEPT ![i] = config[i]]
    /\ UNCHANGED <<now, store, quota, limiters, config, intervals, calls, horizon,
                   maxLog, roundTrip, pending, page>>

\* The effect of the hook runs after the first render: updateState, setInterval.
RunEffect(i) ==
    /\ phase[i] = "rendered"
    /\ Refresh(i)
    /\ intervals' = [intervals EXCEPT ![i] = setInterval(@)]
    /\ phase' = [phase EXCEPT ![i] = "mounted"]
    /\ effectConfig' = [effectConfig EXCEPT ![i] = config[i]]
    /\ UNCHANGED <<now, store, quota, limiters, config, calls, horizon, maxLog,
                   roundTrip, pending, page>>

\* The interval fires: the updateState the effect passed to setInterval runs,
\* with the config of the render that effect belongs to.
TimerTick(i) ==
    /\ intervals[i] > 0
    /\ pending[i].stage = "idle"
    /\ RefreshWith(i, effectConfig[i])
    /\ UNCHANGED <<now, store, quota, limiters, config, phase, intervals, calls,
                   horizon, effectConfig, maxLog,
                   roundTrip, pending, page>>

\* What a call of recordRequest() does to the store, the state and the call log.
CallRecordRequest(i) ==
    /\ LET ok == HasCapacity(store, config[i], now)
           st2 == StoreAfterRecord(store, quota, config[i], now)
           s2 == updateState(st2, config[i], now)
           aOk == HasCapacity(AloneStore(i), config[i], now)
           aSt2 == StoreAfterRecord(AloneStore(i), quota, config[i], now)
       IN  /\ store' = st2
           /\ state' = [state EXCEPT ![i] = s2]
           /\ lastOp' = [lastOp EXCEPT ![i] = IF ok THEN "granted" ELSE "rejected"]
           /\ calls' = [calls EXCEPT ![i] =
                  Append(@, [at |-> now, ok |-> ok, remaining |-> s2.remainingRequests])]
           /\ alone' = [alone EXCEPT ![i] =
                  [text |-> aSt2[storageKey(config[i])],
                   state |-> updateState(aSt2, config[i], now),
                   results |-> Append(@.results, aOk)]]
    /\ refreshes' = [refreshes EXCEPT ![i] = 0]

\* A caller invokes recordRequest().
RecordRequest(i) ==
    /\ phase[i] = "mounted"
    /\ Len(calls[i]) < maxLog
    /\ CallRecordRequest(i)
    /\ UNCHANGED <<now, quota, limiters, config, phase, intervals, horizon, effectConfig, maxLog,
                   roundTrip, pending, page>>

\* recordRequest() called while the window it falls in ends within the time
\* the model covers.
RecordRequestBeforeHorizon(i) ==
    /\ loadFromStorage(store, config[i], now).resetTime.val <= horizon
    /\ RecordRequest(i)

\* The component is torn down: the effect's cleanup clears the interval.
Unmount(i) ==
    /\ phase[i] = "mounted"
    /\ phase' = [phase EXCEPT ![i] = "unmounted"]
    /\ intervals' = [intervals EXCEPT ![i] = clearInterval(@)]
    /\ UNCHANGED <<now, store, quota, limiters, config, state, lastOp, calls, refreshes,
                   alone, horizon, effectConfig, maxLog,
                   roundTrip, pending, page>>

\* The page is loaded again: the hook is rendered anew, localStorage is kept.
Render(i) ==
    /\ phase[i] = "unmounted"
    /\ phase' = [phase EXCEPT ![i] = "rendered"]
    /\ state' = [state EXCEPT ![i] = InitialState(config[i], now)]
    /\ lastOp' = [lastOp EXCEPT ![i] = "render"]
    /\ refreshes' = [refreshes EXCEPT ![i] = 0]
    /\ alone' = [alone EXCEPT ![i].state = InitialState(config[i], now)]
    /\ UNCHANGED <<now, store, quota, limiters, config, intervals, calls, horizon, effectConfig, maxLog,
                   roundTrip, pending, page>>

\* An effect of the last render has not run yet: updateState is a new callback
\* since the effect ran (its dependencies maxRequests or windowMs changed).
EffectPending(i) ==
    /\ phase[i] = "mounted"
    /\ <<effectConfig[i].maxRequests, effectConfig[i].windowMs>>
           # <<config[i].maxRequests, config[i].windowMs>>

\* The hook is rendered with another maxRequests or windowMs.  The useState
\* cell is kept, recordRequest is the new callback, and until the effects are
\* flushed the interval set by the previous effect goes on with the old one.
ConfigChange(i) ==
    /\ phase[i] = "mounted"
    /\ ~EffectPending(i)
    /\ pending[i].stage = "idle"
    /\ \E n \in 1..MaxCount, w \in 1..MaxWindow :
           /\ <<n, w>> # <<config[i].maxRequests, config[i].windowMs>>
           /\ config' = [config EXCEPT ![i].maxRequests = n, ![i].windowMs = w]
    /\ UNCHANGED <<now, store, quota, limiters, state, phase, intervals, lastOp, calls,
                   refreshes, alone, horizon, effectConfig, maxLog, roundTrip, pending,
                   page>>

\* The effects of that render are flushed: the previous effect's cleanup
\* (clearInterval), then the effect again (updateState, setInterval).
EffectFlush(i) ==
    /\ EffectPending(i)
    /\ pending[i].stage = "idle"
    /\ Refresh(i)
    /\ intervals' = [intervals EXCEPT ![i] = setInterval(clearInterval(@))]
    /\ effectConfig' = [effectConfig EXCEPT ![i] = config[i]]
    /\ UNCHANGED <<now, store, quota, limiters, config, phase, calls, horizon, maxLog,
                   roundTrip, pending, page>>

\* Time passes.
Advance ==
    /\ now < horizon
    /\ now' = now + 1
    /\ UNCHANGED <<store, quota, limiters, config, state, phase, intervals, lastOp,
                   calls, refreshes, alone, horizon, effectConfig, maxLog,
                   roundTrip, pending, page>>

\* No save/load round trip has been made.
NoTrip ==
    [saved |-> FALSE, written |-> [requests |-> <<>>, resetTime |-> 0],
     read |-> FALSE, at |-> 0, loaded |-> [requests |-> <<>>, resetTime |-> Num(0)]]

\* The request lists of the round trips: every list of up to TripMaxLen timestamps.
TripRequests == UNION {[1..k -> 0..TripMaxTime] : k \in 0..TripMaxLen}

\* saveToStorage(requests, resetTime) is called with a record of the persisted shape.
SaveRecord(i) ==
    /\ ~roundTrip[i].saved
    /\ \E requests \in TripRequests, resetTime \in 0..(TripMaxTime + 1) :
           /\ store' = saveToStorage(store, quota, config[i], requests, Num(resetTime))
           /\ roundTrip' = [roundTrip EXCEPT ![i] =
                  [NoTrip EXCEPT !.saved = TRUE,
                                 !.written = [requests |-> requests, resetTime |-> resetTime]]]
    /\ UNCHANGED <<now, quota, limiters, config, state, phase, intervals, lastOp, calls,
                   refreshes, alone, horizon, effectConfig, maxLog, pending, page>>

\* loadFromStorage() is called after such a save.
LoadRecord(i) ==
    /\ roundTrip[i].saved
    /\ roundTrip' = [roundTrip EXCEPT ![i].read = TRUE, ![i].at = now,
                                     ![i].loaded = loadFromStorage(store, config[i], now)]
    /\ UNCHANGED <<now, store, quota, limiters, config, state, phase, intervals, lastOp,
                   calls, refreshes, alone, horizon, effectConfig, maxLog, pending, page>>

\* localStorage.setItem starts to throw (quota exceeded, storage unavailable).
ExhaustQuota ==
    /\ ~quota
    /\ quota' = TRUE
    /\ UNCHANGED <<now, store, limiters, config, state, phase, intervals, lastOp,
                   calls, refreshes, alone, horizon, effectConfig, maxLog,
                   roundTrip, pending, page>>

\* localStorage.setItem works again.
FreeQuota ==
    /\ quota
    /\ quota' = FALSE
    /\ UNCHANGED <<now, store, limiters, config, state, phase, intervals, lastOp,
                   calls, refreshes, alone, horizon, effectConfig, maxLog,
                   roundTrip, pending, page>>

\* The texts that are not a serialized {requests: number[], resetTime: number}.
MalformedTexts(n) ==
    {EmptyText, Garbage, NullText, Text("object", {}, <<>>, 0)}
        \cup {Text("object", {"requests"}, r, 0) : r \in {<<>>, <<n>>}}
        \cup {Text("object", {"resetTime"}, <<>>, t) : t \in {n, n + 1}}

IsMalformed(text) ==
    \/ text.kind \in {"empty", "garbage", "null"}
    \/ text.kind = "object" /\ text.has # {"requests", "resetTime"}

\* Something else writes a malformed text under a limiter's key.
Tamper(i) ==
    /\ \E text \in MalformedTexts(now) :
           /\ store' = [store EXCEPT ![storageKey(config[i])] = text]
           /\ alone' = [alone EXCEPT ![i].text = text]
    /\ UNCHANGED <<now, quota, limiters, config, state, phase, intervals, lastOp,
                   calls, refreshes, horizon, effectConfig, maxLog,
                   roundTrip, pending, page>>

\* No recordRequest is in progress.  `stage` is how far a call has got: "read"
\* after its getItem, "written" after its check and setItem; `ok` is what the
\* check found; `wrote` marks a context outside the page that has written.
NoPending ==
    [stage |-> "idle", at |-> 0, data |-> [requests |-> <<>>, resetTime |-> Num(0)],
     ok |-> FALSE, wrote |-> FALSE]

\* The other browser tab that shares the page's localStorage.
OtherTab == "other"

\* recordRequest's loadFromStorage() and Date.now(): one getItem.
ReadRecord(who, cfg) ==
    [pending[who] EXCEPT !.stage = "read", !.at = now,
                         !.data = loadFromStorage(store, cfg, now), !.ok = FALSE]

\* recordRequest's check on the record `data`.
Granted(cfg, data) == ~(Len(data.requests) >= cfg.maxRequests)

\* The store after the check and, when it passes, saveToStorage: one setItem.
StoreAfterWrite(who, cfg, data) ==
    IF Granted(cfg, data)
    THEN saveToStorage(store, quota, cfg, data.requests \o <<pending[who].at>>,
                       data.resetTime)
    ELSE store

\* recordRequest() in a context that shares localStorage with another one.
\* Another context can act between any two storage operations of the call, so
\* the call is three steps.  First its read:
BeginRecord(i) ==
    /\ phase[i] = "mounted"
    /\ pending[i].stage = "idle"
    /\ Len(calls[i]) < maxLog
    /\ pending' = [pending EXCEPT ![i] = ReadRecord(i, config[i])]
    /\ UNCHANGED <<now, store, quota, limiters, config, state, phase, intervals, lastOp,
                   calls, refreshes, alone, horizon, effectConfig, maxLog, roundTrip, page>>

\* The check and the write, made on the record `data`.
WriteWith(i, data) ==
    /\ pending[i].stage = "read"
    /\ store' = StoreAfterWrite(i, config[i], data)
    /\ pending' = [pending EXCEPT ![i].stage = "written",
                                  ![i].ok = Granted(config[i], data)]
    /\ UNCHANGED <<now, quota, limiters, config, state, phase, intervals, lastOp,
                   calls, refreshes, alone, horizon, effectConfig, maxLog, roundTrip, page>>

\* Faulty variant of WriteRecord: the record is read again when it is written,
\* as if read and write were one step.
WriteRecordRereads(i) == WriteWith(i, loadFromStorage(store, config[i], now))

\* Then the check and the write, made on the record the call has read:
WriteRecord(i) == WriteWith(i, pending[i].data)

\* What updateState() at the end of recordRequest and the return do: one more
\* getItem, setState, and the result goes to the caller.
ReturnRecord(i) ==
    LET s2 == updateState(store, config[i], now)
    IN  /\ pending[i].stage = "written"
        /\ state' = [state EXCEPT ![i] = s2]
        /\ lastOp' = [lastOp EXCEPT ![i] = IF pending[i].ok THEN "granted" ELSE "rejected"]
        /\ calls' = [calls EXCEPT ![i] =
               Append(@, [at |-> pending[i].at, ok |-> pending[i].ok,
                          remaining |-> s2.remainingRequests])]
        /\ refreshes' = [refreshes EXCEPT ![i] = 0]
        /\ pending' = [pending EXCEPT ![i].stage = "idle"]

\* Last, updateState and the return.
FinishRecord(i) ==
    /\ ReturnRecord(i)
    /\ UNCHANGED <<now, store, quota, limiters, config, phase, intervals, alone,
                   horizon, effectConfig, maxLog, roundTrip, page>>

\* The page after its first render: nobody signed in, the form empty, no submit
\* running.  `pc` is where handleSubmitFeedback stands: "recording" inside
\* recordRequest(), "creating" awaiting createFeedback, "reloading" awaiting
\* loadData.  `created` counts the feedback items createFeedback has created.
PageIdle ==
    [pc |-> "idle", user |-> FALSE, blank |-> TRUE, loading |-> FALSE, created |-> 0]

PageUnchanged ==
    UNCHANGED <<now, store, quota, limiters, config, state, phase, intervals, lastOp,
                calls, refreshes, alone, horizon, effectConfig, maxLog, roundTrip, pending>>

\* useAuth: the user signs in or out (not while the handler's synchronous part runs).
ToggleUser ==
    /\ page.pc # "recording"
    /\ page' = [page EXCEPT !.user = ~@]
    /\ PageUnchanged

\* onChange of the form's inputs: the fields are filled in, or one is blanked.
\* The form is rendered only for a signed-in user; signed out, the page shows
\* the AuthForm alone and newFeedback keeps its value.
EditForm ==
    /\ page.user
    /\ page.pc # "recording"
    /\ page' = [page EXCEPT !.blank = ~@]
    /\ PageUnchanged

\* How a run of handleSubmitFeedback ends, given what recordRequest would return.
SubmitOutcomeIgnoresResult(canProceed, user, blank, ok) ==
    IF ~canProceed THEN "closed"
    ELSE IF ~user THEN "nouser"
    ELSE IF blank THEN "blank"
    ELSE "created"

SubmitOutcome(canProceed, user, blank, ok) ==
    IF ~canProceed THEN "closed"
    ELSE IF ~user THEN "nouser"
    ELSE IF blank THEN "blank"
    ELSE IF ~ok THEN "refused"
    ELSE "created"

\* handleSubmitFeedback from the submit event to the getItem of recordRequest():
\* the three early returns, setLoading(true), then the call's read.
Submit(i) ==
    /\ phase[i] = "mounted"
    /\ page.pc = "idle"
    /\ ~page.loading
    /\ pending[i].stage = "idle"
    /\ LET early == SubmitOutcome(state[i].canProceed, page.user, page.blank, TRUE)
       IN  IF early = "created"
           THEN /\ Len(calls[i]) < maxLog
                /\ pending' = [pending EXCEPT ![i] = ReadRecord(i, config[i])]
                /\ page' = [page EXCEPT !.pc = "recording", !.loading = TRUE]
           ELSE UNCHANGED <<page, pending>>
    /\ UNCHANGED <<now, store, quota, limiters, config, state, phase, intervals, lastOp,
                   calls, refreshes, alone, horizon, effectConfig, maxLog, roundTrip>>

\* recordRequest() returns to handleSubmitFeedback: on false the alert, the
\* return and setLoading(false); on true createFeedback is called and awaited.
SubmitReturn(i) ==
    /\ page.pc = "recording"
    /\ ReturnRecord(i)
    /\ LET outcome == SubmitOutcome(TRUE, TRUE, FALSE, pending[i].ok)
       IN  page' = [page EXCEPT !.pc = IF outcome = "created" THEN "creating" ELSE "idle",
                                !.loading = (outcome = "created")]
    /\ UNCHANGED <<now, store, quota, limiters, config, phase, intervals, alone,
                   horizon, effectConfig, maxLog, roundTrip>>

\* What createFeedback's settling does to the page: on success the form is
\* reset and loadData is awaited, loading still true; on failure the error is
\* shown and setLoading(false) ends the run.
PageAfterCreate(ok) ==
    IF ok
    THEN [page EXCEPT !.pc = "reloading", !.blank = TRUE, !.created = @ + 1]
    ELSE [page EXCEPT !.pc = "idle", !.loading = FALSE]

\* Faulty variant of CreateFeedbackDone: the catch block takes the submission's
\* timestamp out of the stored record again.
CreateFeedbackDoneRefunds ==
    /\ page.pc = "creating"
    /\ \E ok \in BOOLEAN :
           /\ page' = PageAfterCreate(ok)
           /\ store' = IF ok THEN store
                       ELSE [k \in Keys |->
                                IF store[k].requests = <<>> THEN store[k]
                                ELSE [store[k] EXCEPT !.requests =
                                         SubSeq(@, 1, Len(@) - 1)]]
    /\ UNCHANGED <<now, quota, limiters, config, state, phase, intervals, lastOp,
                   calls, refreshes, alone, horizon, effectConfig, maxLog, roundTrip, pending>>

\* createFeedback settles; the limiter is not touched.
CreateFeedbackDone ==
    /\ page.pc = "creating"
    /\ \E ok \in BOOLEAN : page' = PageAfterCreate(ok)
    /\ PageUnchanged

\* loadData settles (its own errors are caught inside it): the success alert,
\* then setLoading(false).
LoadDataDone ==
    /\ page.pc = "reloading"
    /\ page' = [page EXCEPT !.pc = "idle", !.loading = FALSE]
    /\ PageUnchanged

\* Another tab showing the page calls recordRequest() on the shared
\* localStorage: its read ...
OtherTabReads(i) ==
    /\ pending[OtherTab].stage = "idle"
    /\ HasCapacity(store, config[i], now)
    /\ pending' = [pending EXCEPT ![OtherTab] = ReadRecord(OtherTab, config[i])]
    /\ UNCHANGED <<now, store, quota, limiters, config, state, phase, intervals, lastOp,
                   calls, refreshes, alone, horizon, effectConfig, maxLog, roundTrip, page>>

\* ... and its write, made on the record it read.  Its updateState changes
\* only the other tab's own state.
OtherTabWrites(i) ==
    /\ pending[OtherTab].stage = "read"
    /\ store' = StoreAfterWrite(OtherTab, config[i], pending[OtherTab].data)
    /\ pending' = [pending EXCEPT ![OtherTab].stage = "idle", ![OtherTab].wrote = TRUE]
    /\ UNCHANGED <<now, quota, limiters, config, state, phase, intervals, lastOp,
                   calls, refreshes, alone, horizon, effectConfig, maxLog, roundTrip, page>>

\* ------------------------------------------------------------------- specs
ConfigOf(name, maxRequests, windowMs) ==
    [key |-> rateLimitConfigs[name].key,
     maxRequests |-> maxRequests,
     windowMs |-> windowMs,
     storageKey |-> rateLimitConfigs[name].storageKey]

\* The state after the first render of the hooks `names`, with an empty
\* localStorage, for every choice of maxRequests in `counts` and of windowMs.
InitWith(names, counts, windows, t, log) ==
    /\ now = 0
    /\ store = [k \in Keys |-> Absent]
    /\ quota = FALSE
    /\ limiters = names
    /\ \E n \in [names -> counts], w \in [names -> windows] :
           config = [x \in names |-> ConfigOf(x, n[x], w[x])]
    /\ state = [x \in names |-> InitialState(config[x], now)]
    /\ phase = [x \in names |-> "rendered"]
    /\ intervals = [x \in names |-> 0]
    /\ lastOp = [x \in names |-> "render"]
    /\ calls = [x \in names |-> <<>>]
    /\ refreshes = [x \in names |-> 0]
    /\ alone = [x \in names |->
                   [text |-> Absent, state |-> InitialState(config[x], now), results |-> <<>>]]
    /\ horizon = t
    /\ maxLog = log
    /\ roundTrip = [x \in names |-> NoTrip]
    /\ pending = [x \in names \cup {OtherTab} |-> NoPending]
    /\ page = PageIdle
    /\ effectConfig = config

Next ==
    \/ \E i \in limiters : RunEffect(i)
    \/ \E i \in limiters : TimerTick(i)
    \/ \E i \in limiters : RecordRequest(i)
    \/ \E i \in limiters : Unmount(i)
    \/ \E i \in limiters : Render(i)
    \/ Advance

\* One limiter, the page's feedback limiter, with a reliable localStorage.
Init == InitWith({"feedback"}, 1..MaxCount, 1..MaxWindow, MaxTime, MaxCalls)
Spec == Init /\ [][Next]_vars

\* Two limiters with distinct storage keys on one page.
InitPair ==
    InitWith({"feedback", "changelog"}, {1, MaxCount}, {1, PairMaxTime}, PairMaxTime, PairMaxCalls)
SpecPair == InitPair /\ [][Next]_vars

\* One limiter configured with maxRequests <= 0.
NonPositiveCounts == {0, -1}
InitNonPositive == InitWith({"feedback"}, NonPositiveCounts, 1..MaxWindow, MaxTime, MaxCalls)
SpecNonPositive == InitNonPositive /\ [][Next]_vars

\* One limiter whose localStorage may refuse writes and may hold malformed texts.
InitFault ==
    InitWith({"feedback"}, {1, MaxCount}, {1, FaultMaxTime}, FaultMaxTime, FaultMaxCalls)
NextFault ==
    \/ Next
    \/ ExhaustQuota
    \/ FreeQuota
    \/ \E i \in limiters : Tamper(i)
SpecFault == InitFault /\ [][NextFault]_vars

\* One limiter whose maxRequests may be 0.
InitNonNegative == InitWith({"feedback"}, 0..MaxCount, 1..MaxWindow, MaxTime, MaxCalls)
SpecNonNegative == InitNonNegative /\ [][Next]_vars

\* One limiter whose clock keeps advancing and whose interval keeps firing.
LiveNames == {"feedback"}
InitLive == InitWith(LiveNames, {1, MaxCount}, {1, MaxWindow}, LiveMaxTime, LiveMaxCalls)
NextLive ==
    \/ \E i \in limiters : RunEffect(i)
    \/ \E i \in limiters : TimerTick(i)
    \/ \E i \in limiters : RecordRequestBeforeHorizon(i)
    \/ \E i \in limiters : Unmount(i)
    \/ \E i \in limiters : Render(i)
    \/ Advance
SpecLive ==
    /\ InitLive
    /\ [][NextLive]_vars
    /\ WF_vars(Advance)
    /\ \A i \in LiveNames : WF_vars(TimerTick(i))

\* Two browser tabs showing the page: two contexts with the feedback limiter,
\* one localStorage, and no order between their storage reads and writes.
RaceTabs == {"tab1", "tab2"}
InitRace ==
    /\ now = 0
    /\ store = [k \in Keys |-> Absent]
    /\ quota = FALSE
    /\ limiters = RaceTabs
    /\ config = [x \in RaceTabs |-> ConfigOf("feedback", MaxCount, RaceMaxTime + 1)]
    /\ state = [x \in RaceTabs |-> InitialState(config[x], now)]
    /\ phase = [x \in RaceTabs |-> "rendered"]
    /\ intervals = [x \in RaceTabs |-> 0]
    /\ lastOp = [x \in RaceTabs |-> "render"]
    /\ calls = [x \in RaceTabs |-> <<>>]
    /\ refreshes = [x \in RaceTabs |-> 0]
    /\ alone = [x \in RaceTabs |->
                   [text |-> Absent, state |-> InitialState(config[x], now), results |-> <<>>]]
    /\ horizon = RaceMaxTime
    /\ maxLog = RaceMaxCalls
    /\ roundTrip = [x \in RaceTabs |-> NoTrip]
    /\ pending = [x \in RaceTabs |-> NoPending]
    /\ page = PageIdle
    /\ effectConfig = config
NextRace ==
    \/ \E i \in limiters : RunEffect(i)
    \/ \E i \in limiters : TimerTick(i)
    \/ \E i \in limiters : BeginRecord(i)
    \/ \E i \in limiters : WriteRecord(i)
    \/ \E i \in limiters : FinishRecord(i)
    \/ Advance
SpecRace == InitRace /\ [][NextRace]_vars

\* The page: its feedback limiter is used through handleSubmitFeedback only.
InitPage == InitWith({"feedback"}, {MaxCount}, {PageMaxTime}, PageMaxTime, PageMaxCalls)
NextPage ==
    \/ \E i \in limiters : RunEffect(i)
    \/ \E i \in limiters : TimerTick(i)
    \/ \E i \in limiters : Submit(i)
    \/ \E i \in limiters : WriteRecord(i)
    \/ \E i \in limiters : SubmitReturn(i)
    \/ \E i \in limiters : OtherTabReads(i)
    \/ \E i \in limiters : OtherTabWrites(i)
    \/ CreateFeedbackDone
    \/ LoadDataDone
    \/ ToggleUser
    \/ EditForm
    \/ Advance
SpecPage == InitPage /\ [][NextPage]_vars

\* One limiter whose config may change while it is mounted.
InitCycle == InitWith({"feedback"}, {1}, {1}, CycleMaxTime, CycleMaxCalls)
NextCycle ==
    \/ Next
    \/ \E i \in limiters : ConfigChange(i)
    \/ \E i \in limiters : EffectFlush(i)
SpecCycle == InitCycle /\ [][NextCycle]_vars

\* saveToStorage and loadFromStorage on their own: records of the persisted
\* shape are saved and loaded back as time passes.
InitTrip == InitWith({"feedback"}, {MaxCount}, 1..MaxWindow, TripMaxTime, MaxCalls)
NextTrip ==
    \/ \E i \in limiters : SaveRecord(i)
    \/ \E i \in limiters : LoadRecord(i)
    \/ Advance
SpecTrip == InitTrip /\ [][NextTrip]_vars

\* ------------------------------------------------- reading the call log
\* The window a call falls in, counted from the log alone: a window opens with
\* the first call made at or after the end of the window before it, and lasts
\* windowMs.
RECURSIVE WindowStart(_, _, _)
WindowStart(log, windowMs, k) ==
    IF k = 1 THEN log[1].at
    ELSE LET s == WindowStart(log, windowMs, k - 1)
         IN  IF log[k].at >= s + windowMs THEN log[k].at ELSE s

\* The calls up to the k-th that fall in the k-th call's window.
SameWindow(log, windowMs, k) ==
    {j \in 1..k : WindowStart(log, windowMs, j) = WindowStart(log, windowMs, k)}

\* Of those, the calls that returned true.
GrantedInWindow(log, windowMs, k) ==
    {j \in SameWindow(log, windowMs, k) : log[j].ok}

\* The calls that returned true in the trailing interval (n - windowMs, n].
TrailingGranted(log, windowMs, n) ==
    {j \in 1..Len(log) : log[j].ok /\ log[j].at > n - windowMs}

StoredText(i) == store[storageKey(config[i])]

\* A record is stored and its window has not ended.
Live(i) ==
    /\ StoredText(i).kind = "object"
    /\ StoredText(i).has = {"requests", "resetTime"}
    /\ now < StoredText(i).resetTime

\* A record is stored and its window has ended.
Expired(i) ==
    /\ StoredText(i).kind = "object"
    /\ StoredText(i).has = {"requests", "resetTime"}
    /\ now >= StoredText(i).resetTime

\* ------------------------------------------------------------------ claims

\* C1: from an empty store, the first maxRequests calls of recordRequest made
\* within one window return true and the next call in that window returns false.
C1_FirstNGrantedThenRejected ==
    \A i \in limiters : \A k \in 1..Len(calls[i]) :
        LET pos == Cardinality(SameWindow(calls[i], config[i].windowMs, k))
        IN  /\ pos <= config[i].maxRequests => calls[i][k].ok
            /\ pos = config[i].maxRequests + 1 => ~calls[i][k].ok

C1_Witness ==
    \E i \in limiters :
        /\ Len(calls[i]) = config[i].maxRequests + 1
        /\ config[i].maxRequests = MaxCount
        /\ Cardinality(SameWindow(calls[i], config[i].windowMs, Len(calls[i])))
               = config[i].maxRequests + 1
        /\ \A k \in 1..config[i].maxRequests : calls[i][k].ok
        /\ ~calls[i][Len(calls[i])].ok

\* C2: within one window the exposed remainingRequests is maxRequests - k after
\* k calls that returned true, stays 0 after more than maxRequests attempts, and
\* is never negative.
C2_RemainingCountsDown ==
    \A i \in limiters :
        /\ state[i].remainingRequests >= 0
        /\ \A k \in 1..Len(calls[i]) :
               LET granted == Cardinality(GrantedInWindow(calls[i], config[i].windowMs, k))
                   pos == Cardinality(SameWindow(calls[i], config[i].windowMs, k))
               IN  /\ calls[i][k].ok => calls[i][k].remaining = config[i].maxRequests - granted
                   /\ pos > config[i].maxRequests => calls[i][k].remaining = 0
        /\ ( /\ calls[i] # <<>>
             /\ lastOp[i] # "render"
             /\ now < WindowStart(calls[i], config[i].windowMs, Len(calls[i]))
                          + config[i].windowMs )
           => state[i].remainingRequests
                  = config[i].maxRequests
                      - Cardinality(GrantedInWindow(calls[i], config[i].windowMs, Len(calls[i])))

C2_Witness ==
    \E i \in limiters :
        /\ config[i].maxRequests = MaxCount
        /\ Len(calls[i]) = MaxCount + 2
        /\ Cardinality(SameWindow(calls[i], config[i].windowMs, Len(calls[i]))) = MaxCount + 2
        /\ calls[i][1].remaining = MaxCount - 1
        /\ calls[i][MaxCount + 2].remaining = 0
        /\ lastOp[i] = "refresh"
        /\ state[i].remainingRequests = 0

\* C3 as claimed: at every instant the calls that returned true in the trailing
\* interval (now - windowMs, now] number at most maxRequests.
C3_SlidingWindow ==
    \A i \in limiters :
        Cardinality(TrailingGranted(calls[i], config[i].windowMs, now)) <= config[i].maxRequests

\* C3 amended: the limiter is a fixed window opened by the first granted call:
\* at most maxRequests calls return true in one window, and at most
\* 2 * maxRequests - 1 in any trailing interval of windowMs (the call that
\* opened a window is older than windowMs once the next window opens).
C3_FixedWindow ==
    \A i \in limiters :
        /\ \A k \in 1..Len(calls[i]) :
               Cardinality(GrantedInWindow(calls[i], config[i].windowMs, k))
                   <= config[i].maxRequests
        /\ Cardinality(TrailingGranted(calls[i], config[i].windowMs, now))
               <= 2 * config[i].maxRequests - 1

C3_Witness ==
    \E i \in limiters :
        /\ config[i].maxRequests = MaxCount
        /\ Cardinality(TrailingGranted(calls[i], config[i].windowMs, now))
               = 2 * config[i].maxRequests - 1
        /\ Cardinality(TrailingGranted(calls[i], config[i].windowMs, now))
               > config[i].maxRequests

\* C4: a refresh made when a record is stored and now >= its resetTime reports
\* remainingRequests = maxRequests and resetTime = now + windowMs.
C4_RolloverOnRead ==
    [][\A i \in limiters :
          ((RunEffect(i) \/ TimerTick(i)) /\ Expired(i))
              => /\ state'[i].remainingRequests = config[i].maxRequests
                 /\ state'[i].resetTime = Num(now + config[i].windowMs)]_vars

C4_Witness ==
    \E i \in limiters :
        /\ Expired(i)
        /\ Len(StoredText(i).requests) = config[i].maxRequests
        /\ now - StoredText(i).requests[Len(StoredText(i).requests)] < config[i].windowMs
        /\ lastOp[i] = "refresh"
        /\ state[i].remainingRequests = config[i].maxRequests
        /\ state[i].resetTime = Num(now + config[i].windowMs)

\* C5: when the stored record holds maxRequests timestamps and now >= its
\* resetTime, recordRequest returns true, stores exactly the new timestamp with
\* resetTime = now + windowMs, and leaves remainingRequests = maxRequests - 1.
\* The scenario, scaled: calls at 0, 1, .., N-1 return true, the call at N
\* returns false with 0 remaining, the call at windowMs + 1 returns true with
\* N - 1 remaining.
C5_Scenario ==
    \A i \in limiters :
        LET N == config[i].maxRequests
            log == calls[i]
        IN  ( /\ config[i].windowMs > N
              /\ Len(log) = N + 2
              /\ \A k \in 1..(N + 1) : log[k].at = k - 1
              /\ log[N + 2].at = config[i].windowMs + 1 )
            => /\ \A k \in 1..N : log[k].ok
               /\ ~log[N + 1].ok /\ log[N + 1].remaining = 0
               /\ log[N + 2].ok /\ log[N + 2].remaining = N - 1

\* C5: the scenario above holds in every state, and every recordRequest made on
\* a full record at or after its resetTime is granted and starts a new record.
C5_RolloverOnWrite ==
    /\ []C5_Scenario
    /\ [][\A i \in limiters :
            ( /\ RecordRequest(i)
              /\ Expired(i)
              /\ Len(StoredText(i).requests) = config[i].maxRequests )
            => /\ lastOp'[i] = "granted"
               /\ calls'[i][Len(calls'[i])].ok
               /\ store'[storageKey(config[i])]
                      = Text("object", {"requests", "resetTime"}, <<now>>,
                             now + config[i].windowMs)
               /\ state'[i].remainingRequests = config[i].maxRequests - 1]_vars

C5_Witness ==
    \E i \in limiters :
        LET N == config[i].maxRequests
            log == calls[i]
        IN  /\ N = MaxCount
            /\ config[i].windowMs > N
            /\ Len(log) = N + 2
            /\ \A k \in 1..(N + 1) : log[k].at = k - 1
            /\ log[N + 2].at = config[i].windowMs + 1
            /\ log[N + 2].ok
            /\ lastOp[i] = "granted"
            /\ StoredText(i).requests = <<now>>
            /\ state[i].remainingRequests = N - 1

\* C6 as claimed: two refreshes with no recordRequest between them report the
\* same remainingRequests and resetTime, and timeUntilReset does not increase,
\* whatever is stored and however much time passes.
C6_RefreshIdempotent ==
    [][\A i \in limiters :
          (refreshes[i] >= 1 /\ refreshes'[i] >= 1 /\ (RunEffect(i) \/ TimerTick(i)))
              => /\ state'[i].remainingRequests = state[i].remainingRequests
                 /\ state'[i].resetTime = state[i].resetTime
                 /\ state'[i].timeUntilReset.val <= state[i].timeUntilReset.val]_vars

\* C6 amended: the same, when a record is stored and the second refresh (and so
\* the first) is made before that record's resetTime.
C6_RefreshIdempotentWhileLive ==
    [][\A i \in limiters :
          ( /\ refreshes[i] >= 1 /\ refreshes'[i] >= 1
            /\ (RunEffect(i) \/ TimerTick(i))
            /\ Live(i) )
              => /\ state'[i].remainingRequests = state[i].remainingRequests
                 /\ state'[i].resetTime = state[i].resetTime
                 /\ state'[i].timeUntilReset.val <= state[i].timeUntilReset.val]_vars

C6_Witness ==
    \E i \in limiters :
        /\ refreshes[i] = 2
        /\ Live(i)
        /\ lastOp[i] = "refresh"
        /\ state[i].remainingRequests < config[i].maxRequests
        /\ state[i].timeUntilReset = Num(1)
        /\ config[i].windowMs = MaxWindow
        /\ Len(StoredText(i).requests) = 1

\* C7 as claimed: when setItem fails during a recordRequest that has capacity,
\* the call returns true and the state it leaves shows one request fewer
\* remaining than a refresh would have shown before the call.
C7_WriteFailureStillCounts ==
    [][\A i \in limiters :
          (RecordRequest(i) /\ quota /\ HasCapacity(store, config[i], now))
              => LET before == updateState(store, config[i], now).remainingRequests
                 IN  /\ lastOp'[i] = "granted"
                     /\ state'[i].remainingRequests = before - 1
                     /\ state'[i].canProceed = (before - 1 > 0)]_vars

\* C8 as claimed: a refresh made when the stored text is unparsable or not of
\* the shape {requests, resetTime} reports what it reports for an absent key.
C8_MalformedReadsAsAbsent ==
    [][\A i \in limiters :
          ((RunEffect(i) \/ TimerTick(i)) /\ IsMalformed(StoredText(i)))
              => /\ state'[i].canProceed
                 /\ state'[i].remainingRequests = config[i].maxRequests
                 /\ state'[i].resetTime = Num(now + config[i].windowMs)]_vars

\* C9: with distinct storage keys, an operation on one limiter leaves the other
\* limiter's stored record and state as they were, and every limiter's record,
\* state and results are those of the same calls made with no other limiter.
C9_SameAsAlone ==
    \A i \in limiters :
        /\ StoredText(i) = alone[i].text
        /\ state[i] = alone[i].state
        /\ Len(calls[i]) = Len(alone[i].results)
        /\ \A k \in 1..Len(calls[i]) : calls[i][k].ok = alone[i].results[k]

\* C9: every limiter behaves as it does alone, and no operation on one limiter
\* changes the stored record or the state of another.
C9_Independent ==
    /\ []C9_SameAsAlone
    /\ [][\A i \in limiters : \A j \in limiters \ {i} :
            (RunEffect(i) \/ TimerTick(i) \/ RecordRequest(i) \/ Unmount(i) \/ Render(i))
                => /\ store'[storageKey(config[j])] = store[storageKey(config[j])]
                   /\ state'[j] = state[j]]_vars

C9_Witness ==
    \E i \in limiters : \E j \in limiters \ {i} :
        /\ Len(calls[i]) >= 1 /\ Len(calls[j]) >= 1
        /\ calls[i][1].at = calls[j][1].at
        /\ ~calls[i][Len(calls[i])].ok
        /\ ~state[i].canProceed
        /\ state[j].canProceed
        /\ state[j].remainingRequests = config[j].maxRequests - 1
        /\ Live(i) /\ Live(j)

\* C10 as claimed: with maxRequests <= 0 every state the hook exposes has
\* canProceed = false and remainingRequests = 0, every recordRequest returns
\* false and nothing is written to the store.
C10_AlwaysRejects ==
    \A i \in limiters :
        config[i].maxRequests <= 0
            => /\ ~state[i].canProceed
               /\ state[i].remainingRequests = 0
               /\ \A k \in 1..Len(calls[i]) : ~calls[i][k].ok
               /\ StoredText(i) = Absent

\* C11: a record written by save and read back by load before its resetTime
\* comes back with the same resetTime and with exactly its timestamps t such
\* that now - t < windowMs, in the order they were written.
C11_RoundTrip ==
    \A i \in limiters :
        LET trip == roundTrip[i]
            Young(t) == trip.at - t < config[i].windowMs
        IN  (trip.read /\ trip.at < trip.written.resetTime)
                => /\ trip.loaded.resetTime = Num(trip.written.resetTime)
                   /\ trip.loaded.requests = SelectSeq(trip.written.requests, Young)

C11_Witness ==
    \E i \in limiters :
        LET trip == roundTrip[i]
        IN  /\ trip.read /\ trip.at < trip.written.resetTime
            /\ Len(trip.written.requests) = TripMaxLen
            /\ Len(trip.loaded.requests) = 1
            /\ trip.loaded.requests[1] = trip.written.requests[TripMaxLen]
            /\ trip.written.requests[1] < trip.written.requests[TripMaxLen]

\* C12 (state part): a mounted instance has exactly one interval, an instance
\* that is not mounted has none.
C12_OneTimer ==
    \A i \in limiters :
        /\ intervals[i] <= 1
        /\ phase[i] # "mounted" => intervals[i] = 0

\* C12: an instance never has more than one active interval, also across the
\* effect's re-runs on a config change, and once it is disposed its interval is
\* cleared, so updateState never runs for it again.
C12_TimerLifecycle ==
    /\ []C12_OneTimer
    /\ [][\A i \in limiters : TimerTick(i) => phase[i] = "mounted"]_vars

\* Disposed after a config change whose effect has run (the config the model
\* starts from is maxRequests 1, windowMs 1), with two refreshes since the render.
C12_Witness ==
    \E i \in limiters :
        /\ phase[i] = "unmounted"
        /\ intervals[i] = 0
        /\ config[i].maxRequests = MaxCount
        /\ config[i].windowMs = MaxWindow
        /\ effectConfig[i] = config[i]
        /\ refreshes[i] = 2

\* C13 as claimed: with a non-decreasing clock no step lowers the stored
\* resetTime or the resetTime of the derived state.
C13_ResetTimeForward ==
    [][\A i \in limiters :
          /\ StoredText(i)'.resetTime >= StoredText(i).resetTime
          /\ state'[i].resetTime.val >= state[i].resetTime.val]_vars

\* C14: every record load returns, and every record recordRequest has
\* persisted, holds only timestamps t with t >= resetTime - windowMs, for the
\* record's own resetTime.
C14_TimestampsInsideWindow ==
    \A i \in limiters :
        LET loaded == loadFromStorage(store, config[i], now)
            stored == StoredText(i)
        IN  /\ \A k \in 1..Len(loaded.requests) :
                   loaded.requests[k] >= loaded.resetTime.val - config[i].windowMs
            /\ \A k \in 1..Len(stored.requests) :
                   stored.requests[k] >= stored.resetTime - config[i].windowMs

\* A second window's record, read while live: it holds the instant the window
\* began and a later one, and nothing of the window before.
C14_Witness ==
    \E i \in limiters :
        LET loaded == loadFromStorage(store, config[i], now)
        IN  /\ config[i].windowMs = MaxWindow
            /\ Len(calls[i]) > MaxCount
            /\ Live(i)
            /\ Len(loaded.requests) = MaxCount
            /\ loaded.requests[1] = loaded.resetTime.val - config[i].windowMs
            /\ loaded.requests[1] > 0
            /\ loaded.requests[MaxCount] > loaded.requests[1]

\* C15: in one context with a fixed maxRequests >= 0 and storage empty at the
\* start, the persisted record holds between 0 and maxRequests timestamps.
C15_StoredWithinLimit ==
    \A i \in limiters :
        /\ config[i].maxRequests >= 0
        /\ Len(StoredText(i).requests) >= 0
        /\ Len(StoredText(i).requests) <= config[i].maxRequests

\* The record is full, and a further call has been refused.
C15_Witness ==
    \E i \in limiters :
        /\ config[i].maxRequests = MaxCount
        /\ Len(StoredText(i).requests) = MaxCount
        /\ Live(i)
        /\ lastOp[i] = "rejected"

\* The limiter reports no remaining requests and its window has not ended.
Closed(i) ==
    /\ phase[i] = "mounted"
    /\ state[i].remainingRequests = 0
    /\ now < state[i].resetTime.val

\* C16: once remainingRequests has reached 0, every refresh and every
\* recordRequest made before the window's resetTime still reports
\* canProceed = FALSE, the call is refused, and the filter of stale timestamps
\* drops nothing from a record whose window has not ended.
C16_ClosedUntilRollover ==
    /\ [][\A i \in limiters :
             (Closed(i) /\ (TimerTick(i) \/ RecordRequest(i)))
                 => /\ ~state'[i].canProceed
                    /\ state'[i].remainingRequests = 0
                    /\ (RecordRequest(i) => lastOp'[i] = "rejected")]_vars
    /\ [](\A i \in limiters :
             Live(i) => loadFromStorage(store, config[i], now).requests
                            = StoredText(i).requests)

\* Closed at the last instant of the longest window: a call made then was
\* refused although the first timestamp is as old as it can get.
C16_Witness ==
    \E i \in limiters :
        /\ Closed(i)
        /\ config[i].windowMs = MaxWindow
        /\ config[i].maxRequests = MaxCount
        /\ now = state[i].resetTime.val - 1
        /\ StoredText(i).requests[1] = now - (MaxWindow - 1)
        /\ lastOp[i] = "rejected"
        /\ calls[i][Len(calls[i])].at = now

\* The exposed state allows a request and shows the whole allowance.
Reopened(i) ==
    /\ state[i].canProceed
    /\ state[i].remainingRequests = config[i].maxRequests

\* C17: for maxRequests >= 1, a mounted limiter that reports canProceed = FALSE
\* eventually reports canProceed = TRUE with remainingRequests = maxRequests
\* when time keeps advancing and the interval keeps firing, unless the user
\* calls recordRequest again or the hook is unmounted; the tick that finds
\* now >= resetTime is the one that reopens it.
C17_EventuallyReopens ==
    /\ \A i \in LiveNames : \A k \in 0..LiveMaxCalls :
           (phase[i] = "mounted" /\ ~state[i].canProceed /\ Len(calls[i]) = k)
               ~> (Reopened(i) \/ phase[i] # "mounted" \/ Len(calls[i]) # k)
    /\ [][\A i \in LiveNames :
             (/\ phase[i] = "mounted"
              /\ ~state[i].canProceed
              /\ now >= state[i].resetTime.val
              /\ TimerTick(i)) => Reopened(i)']_vars

\* Reopened by a tick, not by a call: the full record of the window that
\* ended is still in storage.
C17_Witness ==
    \E i \in limiters :
        /\ phase[i] = "mounted"
        /\ Reopened(i)
        /\ lastOp[i] = "refresh"
        /\ config[i].maxRequests = MaxCount
        /\ config[i].windowMs = MaxWindow
        /\ Expired(i)
        /\ Len(StoredText(i).requests) = MaxCount
        /\ now = StoredText(i).resetTime
        /\ calls[i][Len(calls[i])].at < now
        /\ ~calls[i][Len(calls[i])].ok
        /\ calls[i][Len(calls[i])].remaining = 0

\* The calls of all contexts that returned true in the window ending at r.
GrantedUntil(r) ==
    {c \in limiters \X (1..RaceMaxCalls + 1) :
        /\ c[2] <= Len(calls[c[1]])
        /\ calls[c[1]][c[2]].ok
        /\ calls[c[1]][c[2]].at < r
        /\ calls[c[1]][c[2]].at >= r - config[c[1]].windowMs}

\* The last calls of contexts i and j were made on the same record, read with
\* one slot left, and both have returned.
RacedForLastSlot(i, j) ==
    /\ i # j
    /\ pending[i].stage = "idle" /\ pending[j].stage = "idle"
    /\ Len(calls[i]) > 0 /\ Len(calls[j]) > 0
    /\ pending[i].data = pending[j].data
    /\ Len(pending[i].data.requests) = config[i].maxRequests - 1

\* C18: when two contexts sharing one storageKey both read the record with the
\* last slot free before either writes, both calls return true, more than
\* maxRequests calls have succeeded in that window, and the persisted record
\* holds maxRequests timestamps: the one of the call that wrote last, not the
\* other's.
C18_LostUpdate ==
    \A i, j \in limiters :
        RacedForLastSlot(i, j) =>
            LET stored == StoredText(i)
                read == pending[i].data
            IN  /\ calls[i][Len(calls[i])].ok
                /\ calls[j][Len(calls[j])].ok
                /\ Cardinality(GrantedUntil(read.resetTime.val)) > config[i].maxRequests
                /\ stored.resetTime = read.resetTime.val
                /\ Len(stored.requests) = config[i].maxRequests
                /\ \E w \in {i, j} :
                       stored.requests = read.requests \o <<pending[w].at>>

\* Both tabs took the last of MaxCount slots, at different instants; the
\* stored record shows the later call only.
C18_Witness ==
    \E i, j \in limiters :
        /\ RacedForLastSlot(i, j)
        /\ config[i].maxRequests = MaxCount
        /\ pending[i].at < pending[j].at
        /\ StoredText(i).requests = pending[i].data.requests \o <<pending[j].at>>
        /\ Cardinality(GrantedUntil(StoredText(i).resetTime)) = MaxCount + 1
        /\ ~state[i].canProceed /\ ~state[j].canProceed

\* C19: a refresh (the effect's or a timer tick's updateState) and a
\* recordRequest that returns false leave localStorage as it was; the store
\* changes only in a recordRequest that returns true, so an expired record
\* stays as written until then.
C19_ReadsLeaveStore ==
    [][/\ \A i \in limiters :
             (\/ RunEffect(i)
              \/ TimerTick(i)
              \/ (RecordRequest(i) /\ ~HasCapacity(store, config[i], now)))
                 => store' = store
       /\ store' # store
             => \E i \in limiters : RecordRequest(i) /\ lastOp'[i] = "granted"]_vars

\* A full record whose window has ended is still stored as written, after a
\* refused call in its window and two refreshes past its resetTime.
C19_Witness ==
    \E i \in limiters :
        /\ Expired(i)
        /\ config[i].maxRequests = MaxCount
        /\ Len(StoredText(i).requests) = MaxCount
        /\ refreshes[i] = 2
        /\ lastOp[i] = "refresh"
        /\ Reopened(i)
        /\ ~calls[i][Len(calls[i])].ok
        /\ calls[i][Len(calls[i])].at < StoredText(i).resetTime

\* C20: in every run of handleSubmitFeedback, createFeedback is called only
\* after recordRequest() was called in that run and returned true; a run that
\* finds canProceed false, no user, a blank field, or gets false from
\* recordRequest never calls createFeedback.
C20_CreateOnlyAfterGrant ==
    [][\A i \in limiters :
          LET last == calls'[i][Len(calls'[i])]
              called == page.pc = "idle" /\ page'.pc = "recording"
              created == page.pc # "creating" /\ page'.pc = "creating"
          IN  /\ page'.pc = "recording" => (called \/ page.pc = "recording")
              /\ called
                  => /\ state[i].canProceed /\ page.user /\ ~page.blank
                     /\ pending'[i].stage = "read" /\ pending'[i].at = now
              /\ (Submit(i) /\ (~state[i].canProceed \/ ~page.user \/ page.blank))
                  => (page'.pc = "idle" /\ pending' = pending /\ calls' = calls)
              /\ created
                  => /\ page.pc = "recording"
                     /\ pending[i].ok
                     /\ Len(calls'[i]) = Len(calls[i]) + 1
                     /\ last.ok /\ last.at = pending[i].at
              /\ (SubmitReturn(i) /\ ~pending[i].ok)
                  => (page'.pc = "idle" /\ ~last.ok)]_vars

\* createFeedback is being called in a later window, after a run in which
\* recordRequest() returned false because another tab had filled the record.
C20_Witness ==
    /\ page.pc = "creating"
    /\ pending[OtherTab].wrote
    /\ \E i \in limiters :
           /\ config[i].maxRequests = MaxCount
           /\ Len(calls[i]) = 2
           /\ ~calls[i][1].ok
           /\ calls[i][2].ok
           /\ calls[i][2].at > calls[i][1].at

\* The calls of limiter i that returned true in the window of the stored record.
GrantedInStoredWindow(i) ==
    {j \in 1..Len(calls[i]) :
        /\ calls[i][j].ok
        /\ calls[i][j].at >= StoredText(i).resetTime - config[i].windowMs}

\* What the rest of handleSubmitFeedback, after recordRequest() has returned
\* true, does to the limiter: nothing, whether createFeedback fails or not.
HandlerLeavesLimiter ==
    [][(CreateFeedbackDone \/ LoadDataDone) => (store' = store /\ state' = state)]_vars

\* While its window lasts, the stored record holds the timestamp of every
\* granted submission of the page, and maxRequests of them with nothing
\* created leave the limiter closed.
SlotsKept(i) ==
    (Live(i) /\ page.pc # "recording") =>
        /\ \A j \in GrantedInStoredWindow(i) :
               \E k \in 1..Len(StoredText(i).requests) :
                   StoredText(i).requests[k] = calls[i][j].at
        /\ (/\ page.created = 0
            /\ Cardinality(GrantedInStoredWindow(i)) = config[i].maxRequests)
               => /\ ~state[i].canProceed
                  /\ state[i].remainingRequests = 0
                  /\ ~HasCapacity(store, config[i], now)

\* C21 as claimed: a slot taken by recordRequest in handleSubmitFeedback is
\* never given back; the stored record keeps the submission's timestamp when
\* createFeedback fails, and maxRequests failed submissions in one window
\* close the limiter.
C21_NoRefundAnyContext ==
    /\ HandlerLeavesLimiter
    /\ [](\A i \in limiters : SlotsKept(i))

\* C21, amended: the same in a single execution context, that is as long as
\* no other tab has written the shared record.
C21_NoRefund ==
    /\ HandlerLeavesLimiter
    /\ [](\A i \in limiters : ~pending[OtherTab].wrote => SlotsKept(i))

\* MaxCount submissions were granted in one window and every createFeedback
\* failed: nothing was created, the limiter is closed, a further submit was
\* turned away; no other tab has written.
C21_Witness ==
    \E i \in limiters :
        /\ page.pc = "idle"
        /\ page.created = 0
        /\ ~pending[OtherTab].wrote
        /\ config[i].maxRequests = MaxCount
        /\ Live(i)
        /\ Cardinality(GrantedInStoredWindow(i)) = MaxCount
        /\ Len(StoredText(i).requests) = MaxCount
        /\ ~state[i].canProceed
        /\ lastOp[i] = "refresh"
====
